---------------------------- MODULE Spec2Model ----------------------------
(***************************************************************************)
(* Model of the trip-generation pipeline of the locations service:         *)
(*   app/openai_client.py  OpenAIChatClientTrip (conversation state,       *)
(*                         bounded retry, response parsing)                *)
(*   app/utils.py          haversine / greedy ordering / validation        *)
(*   app/routes.py         create_trip, exclude_locations_from_trip        *)
(*   app/services.py       TripService, LocationService (storage)          *)
(*   app/middleware.py     RequestLoggingMiddleware (request rows)         *)
(*                                                                         *)
(* Environment assumptions (the client library is not part of the          *)
(* repository): the exception classes named in the except clause of        *)
(* get_completions_create_response are the failure kinds of the            *)
(* generative API; in the client library every API error, including        *)
(* AuthenticationError, derives from APIError.                             *)
(***************************************************************************)
EXTENDS Integers, Sequences, FiniteSets, TLC

VARIABLES
    requests,    \* number of rows of table "requests" (ids 1..requests)
    trips,       \* rows of table "trips"; a row's id is its index
    locations,   \* rows of table "locations"; a row's id is its index
    h,           \* per worker: the request handler and its chat client
    call         \* one response text on its way through parse_response,
                 \* the validator and the order assignment

vars == <<requests, trips, locations, h, call>>

---------------------------------------------------------------------------
(* Bounds of the model *)

\* HTTP requests served in one run (server specification)
MaxRequests == 2
\* calls made on one client instance (client specification)
MaxCalls == 3
\* objects in one response text (pipeline specification)
MaxBatch == 3

Workers == {"w1", "w2"}

---------------------------------------------------------------------------
(* Values *)

\* Python None for optional integers (ids start at 1, num_places >= 3)
None == 0
\* a local variable that has not been assigned
Unbound == -1

several_places == "several_places"
by_place == "by_place"
TripTypeEnum == {several_places, by_place}
\* values of the constructor's parameter trip_type: str, one of them not a
\* key of TRIP_TYPE
TripTypes == TripTypeEnum \cup {"round_trip"}

\* coordinates are kept in 1/10000 degree
Deg == 10000

\* decoded JSON objects the generative API may produce
Eiffel == [name |-> "Eiffel Tower", latitude |-> 488584, longitude |-> 22945]
Berlin == [name |-> "Berlin", latitude |-> 525200, longitude |-> 134050]
Kyiv == [name |-> "Kyiv", latitude |-> 504501, longitude |-> 305234]
\* latitude = 200: out of range
Nowhere == [name |-> "Nowhere", latitude |-> 2000000, longitude |-> 0]
\* an object without the key "latitude"
NoLat == [name |-> "NoLat", longitude |-> 0]
\* an object with none of the location keys
Stray == [note |-> "n/a"]
\* a second place at Berlin's coordinates (equal distance from anywhere)
BerlinWall == [name |-> "Berlin Wall", latitude |-> 525200, longitude |-> 134050]
\* an object without the key "name"
NoName == [latitude |-> 504501, longitude |-> 305234]
\* a name of 101 characters
LongName ==
    [name |-> "xxxxxxxxxxxxxxxxxxxxxxxxxxxxxxxxxxxxxxxxxxxxxxxxxxxxxxxxxxxxxxxxxxxxxxxxxxxxxxxxxxxxxxxxxxxxxxxxxxxxx",
     latitude |-> 488584, longitude |-> 22945]

\* a response text of the API: its JSON shape and the objects it holds
Text(shape, items) == [shape |-> shape, items |-> items]
\* the retry call's None result (no text)
NoText == Text("None", <<>>)

ResponseTexts ==
    { Text("list", <<Eiffel, Kyiv, Berlin>>),
      Text("wrapped", <<Berlin, Eiffel>>),
      Text("list", <<>>),
      Text("object", <<Stray>>),
      Text("garbage", <<>>),
      Text("number", <<>>),
      Text("list", <<Eiffel, Nowhere>>),
      Text("list", <<Eiffel, NoLat>>) }

\* len(result): the characters of the text.  "[]" 2, "5" 1, "oops" 4,
\* "null" 4; an object needs at least 12 characters per key.
ItemChars(it) == 2 + 12 * Cardinality(DOMAIN it)

RECURSIVE ItemsChars(_)
ItemsChars(items) ==
    IF items = <<>> THEN 0
    ELSE ItemChars(Head(items)) + 1 + ItemsChars(Tail(items))

TextLen(t) ==
    CASE t.shape = "list" -> 2 + ItemsChars(t.items)
      [] t.shape = "wrapped" -> 16 + ItemsChars(t.items)
      [] t.shape = "object" -> ItemChars(t.items[1])
      [] t.shape = "number" -> 1
      [] OTHER -> 4

\* results of operations that may raise
Ok(v) == [ok |-> TRUE, val |-> v, exc |-> "", detail |-> ""]
Raise(e) == [ok |-> FALSE, val |-> <<>>, exc |-> e, detail |-> ""]
HTTPException(d) == [ok |-> FALSE, val |-> <<>>, exc |-> "HTTPException", detail |-> d]

---------------------------------------------------------------------------
(* app/utils.py *)

LatLon(loc) == <<loc.latitude, loc.longitude>>

\* haversine_distance on the coordinates the model uses, in km (rounded);
\* R = 6371.  The formula is symmetric and 0 on equal points.
haversine_distance(lat1, lon1, lat2, lon2) ==
    LET a == <<lat1, lon1>>
        b == <<lat2, lon2>>
        pair == {a, b}
    IN  CASE a = b -> 0
          [] pair = {LatLon(Eiffel), LatLon(Berlin)} -> 881
          [] pair = {LatLon(Eiffel), LatLon(Kyiv)} -> 2027
          [] pair = {LatLon(Berlin), LatLon(Kyiv)} -> 1204
          [] pair = {LatLon(Eiffel), LatLon(Nowhere)} -> 16800
          [] pair = {LatLon(Berlin), LatLon(Nowhere)} -> 16218
          [] pair = {LatLon(Kyiv), LatLon(Nowhere)} -> 15699

\* loc["latitude"], loc["longitude"] raise KeyError on a missing key
HasCoords(loc) == {"latitude", "longitude"} \subseteq DOMAIN loc

\* a selection that takes the last of several minimal elements
ClosestIndex_LastMinimal(last, remaining) ==
    LET d(i) == haversine_distance(last.latitude, last.longitude,
                                   remaining[i].latitude, remaining[i].longitude)
    IN  CHOOSE i \in 1..Len(remaining) :
            /\ \A j \in 1..Len(remaining) : d(i) <= d(j)
            /\ \A j \in (i + 1)..Len(remaining) : d(j) > d(i)

\* min(distances, key=itemgetter(1)): index of the first minimal element
ClosestIndex(last, remaining) ==
    LET d(i) == haversine_distance(last.latitude, last.longitude,
                                   remaining[i].latitude, remaining[i].longitude)
    IN  CHOOSE i \in 1..Len(remaining) :
            /\ \A j \in 1..Len(remaining) : d(i) <= d(j)
            /\ \A j \in 1..(i - 1) : d(j) > d(i)

\* a removal that drops every element equal to x
ListRemove_AllEqual(seq, x) ==
    SelectSeq(seq, LAMBDA y : y # x)

\* list.remove(x): drops the first element equal to x
ListRemove(seq, x) ==
    LET k == CHOOSE i \in 1..Len(seq) :
                 seq[i] = x /\ \A j \in 1..(i - 1) : seq[j] # x
    IN  SubSeq(seq, 1, k - 1) \o SubSeq(seq, k + 1, Len(seq))

RECURSIVE GreedyLoop(_, _)
GreedyLoop(ordered, remaining) ==
    IF remaining = <<>> THEN Ok(ordered)
    ELSE LET last == ordered[Len(ordered)]
         IN  IF \/ ~HasCoords(last)
                \/ \E i \in 1..Len(remaining) : ~HasCoords(remaining[i])
             THEN Raise("KeyError")
             ELSE LET closest_loc == remaining[ClosestIndex(last, remaining)]
                  IN  GreedyLoop(Append(ordered, closest_loc),
                                 ListRemove(remaining, closest_loc))

order_locations_by_distance(locs) ==
    IF locs = <<>> THEN Ok(locs)
    ELSE GreedyLoop(<<locs[1]>>, Tail(locs))

\* pydantic validation of LocationCreate(trip_id=None, **location)
\* (schemas.py): name 1..100 characters, latitude -90..90, longitude
\* -180..180, all three required
LocationCreateValid(loc) ==
    /\ {"name", "latitude", "longitude"} \subseteq DOMAIN loc
    /\ Len(loc.name) >= 1 /\ Len(loc.name) <= 100
    /\ loc.latitude >= -90 * Deg /\ loc.latitude <= 90 * Deg
    /\ loc.longitude >= -180 * Deg /\ loc.longitude <= 180 * Deg

\* some object of the parsed batch fails promotion to LocationCreate
HasInvalidRecord(batch) ==
    \E i \in 1..Len(batch) : ~LocationCreateValid(batch[i])

\* a promotion that takes each coordinate for the other
LocationCreate_SwapsCoords(loc) ==
    [trip_id |-> None, order |-> None, name |-> loc.name,
     latitude |-> loc.longitude, longitude |-> loc.latitude]

\* LocationCreate(trip_id=None, **location)
LocationCreate(loc) ==
    [trip_id |-> None, order |-> None, name |-> loc.name,
     latitude |-> loc.latitude, longitude |-> loc.longitude]

\* the HTTPException of lines 93-96 carries, in val, the element its detail
\* prints (prediction_locations_list[0])
validate_prediction_locations(prediction_locations_list) ==
    IF prediction_locations_list = <<>>
    THEN HTTPException("No locations generated")
    ELSE LET ordered_locations ==
                 order_locations_by_distance(prediction_locations_list)
         IN  IF ~ordered_locations.ok THEN ordered_locations
             ELSE IF \E i \in 1..Len(ordered_locations.val) :
                         ~LocationCreateValid(ordered_locations.val[i])
             THEN [HTTPException("Invalid location data") EXCEPT
                      !.val = <<prediction_locations_list[1]>>]
             ELSE Ok([i \in 1..Len(ordered_locations.val) |->
                         LocationCreate(ordered_locations.val[i])])

---------------------------------------------------------------------------
(* app/openai_client.py: parsing *)

\* a parser without the unwrapping of the "locations" key
parse_response_NoUnwrap(response_text) ==
    CASE response_text.shape = "None" -> Raise("TypeError")
      [] response_text.shape = "garbage" -> Ok(<<>>)
      [] response_text.shape = "list" -> Ok(response_text.items)
      [] response_text.shape = "wrapped" -> Ok(<<[locations |-> response_text.items]>>)
      [] response_text.shape = "object" -> Ok(<<response_text.items[1]>>)
      [] OTHER -> Raise("TypeError")

\* json.loads + shape handling; response_text may be None
parse_response(response_text) ==
    CASE response_text.shape = "None" -> Raise("TypeError")
      [] response_text.shape = "garbage" -> Ok(<<>>)
      [] response_text.shape \in {"wrapped", "list"} -> Ok(response_text.items)
      [] response_text.shape = "object" -> Ok(<<response_text.items[1]>>)
      [] OTHER -> Raise("TypeError")

---------------------------------------------------------------------------
(* app/openai_client.py: conversation state *)

\* a piece of a message's text: a literal, or a formatted JSON value
P(s) == [s |-> s, v |-> <<>>]
J(v) == [s |-> "{json}", v |-> v]

Message(role, content) == [role |-> role, content |-> content]

\* a lookup without a default
system_prompt_NoDefault(trip_type) ==
    IF trip_type = by_place THEN "TRIP_PROMPT_SINGLE_PLACE"
    ELSE IF trip_type = several_places THEN "TRIP_PROMPT_SEVERAL_PLACES"
    ELSE ""

\* TRIP_TYPE.get(trip_type, TRIP_PROMPT_SEVERAL_PLACES)
system_prompt(trip_type) ==
    IF trip_type = by_place THEN "TRIP_PROMPT_SINGLE_PLACE"
    ELSE "TRIP_PROMPT_SEVERAL_PLACES"

\* OpenAIChatClientTrip.__init__: messages = [system message]
NewClientMessages(trip_type) ==
    <<Message("system", <<P(system_prompt(trip_type))>>)>>

add_message(messages, role, content) == Append(messages, Message(role, content))

Pop(messages) == SubSeq(messages, 1, Len(messages) - 1)

\* request bodies of POST /trip/ (TripCreateRequest); "" and None (0) stand
\* for an absent start_location and num_places
TripCreateRequests ==
    [request_text : {"Paris trip"},
     start_location : {"", "Start from Paris"},
     num_places : {None, 5}]

ExcludeTexts == {"Exclude Eiffel Tower"}

\* a message that gives the count whatever the trip type
TripUserMessage_AlwaysCount(trip, trip_type) ==
    <<P("Generate location details for: "), P(trip.request_text)>>
    \o (IF trip.start_location # "" THEN <<P(" "), P(trip.start_location)>>
        ELSE <<>>)
    \o (IF trip.num_places # None
        THEN <<P(", num_places = "), P(ToString(trip.num_places))>>
        ELSE <<>>)
    \o <<P(". Return a list of all locations in the order they should be visited.")>>

\* get_trip_prediction, lines 146-151
TripUserMessage(trip, trip_type) ==
    <<P("Generate location details for: "), P(trip.request_text)>>
    \o (IF trip.start_location # "" THEN <<P(" "), P(trip.start_location)>>
        ELSE <<>>)
    \o (IF trip.num_places # None /\ ~(trip_type = several_places)
        THEN <<P(", num_places = "), P(ToString(trip.num_places))>>
        ELSE <<>>)
    \o <<P(". Return a list of all locations in the order they should be visited.")>>

\* get_exlude_locations_prediction, lines 197-209
ExcludeUserMessages(previous_trip, exclude_text) ==
    << Message("user", <<P("Previous generated trip was: "),
                         J(previous_trip.response_json)>>),
       Message("user", <<P("Exclude text: "), P(exclude_text)>>),
       Message("user",
           (IF previous_trip.num_places # None /\ previous_trip.trip_type = by_place
            THEN <<P(". num_places = "), P(ToString(previous_trip.num_places))>>
            ELSE <<>>)
           \o <<P(". Return a list of all locations in the order they should be visited.")>>) >>

\* the guard of the other method's finally block
FinallyTrip_WrongGuard(messages) ==
    IF Len(messages) > 2 THEN SubSeq(messages, 1, Len(messages) - 1) ELSE messages

\* the finally blocks of the two prediction methods
FinallyTrip(messages) ==
    IF Len(messages) > 1 THEN Pop(messages) ELSE messages

\* a finally block that removes everything the call appended
FinallyExclude_PopThree(messages) ==
    IF Len(messages) > 2 THEN Pop(Pop(Pop(messages))) ELSE messages

FinallyExclude(messages) ==
    IF Len(messages) > 2 THEN Pop(Pop(messages)) ELSE messages

---------------------------------------------------------------------------
(* app/openai_client.py: bounded retry *)

max_retries == 4
backoff_base == 1
max_wait == 8

RECURSIVE Pow2(_)
Pow2(n) == IF n = 0 THEN 1 ELSE 2 * Pow2(n - 1)

Min(a, b) == IF a <= b THEN a ELSE b

\* a linear instead of an exponential backoff
BackoffWait_Linear(attempt) == Min(backoff_base * (attempt + 1), max_wait)

\* line 117
BackoffWait(attempt) == Min(backoff_base * Pow2(attempt), max_wait)

\* failures completions.create can raise; RuntimeError stands for a failure
\* outside the client library's APIError hierarchy
ApiErrors ==
    {"RateLimitError", "Timeout", "APIConnectionError", "APIError",
     "AuthenticationError", "RuntimeError"}

\* the classes an exception is an instance of
ExcClasses(e) ==
    CASE e \in {"RateLimitError", "APIConnectionError", "AuthenticationError"}
            -> {e, "APIError"}
      [] OTHER -> {e}

\* except (RateLimitError, Timeout, APIConnectionError, APIError), line 116
RetriedClasses == {"RateLimitError", "Timeout", "APIConnectionError", "APIError"}

IsRetried(e) == ExcClasses(e) \cap RetriedClasses # {}

\* the parameters get_completions_create_response requires (line 82), and
\* the arguments its two call sites pass (lines 156-158, 213)
RequiredParams == {"num_places"}
TripCallArgs == {"num_places"}
ExcludeCallArgs == {}

CallBinds(args) == RequiredParams \subseteq args

\* one attempt's outcome: a response text, or a raised failure
ApiOutcomes ==
    {[ok |-> TRUE, text |-> t, exc |-> ""] : t \in ResponseTexts}
    \cup {[ok |-> FALSE, text |-> NoText, exc |-> e] : e \in ApiErrors}

\* a well-formed, non-empty list of valid locations in one of the shapes the
\* prompts ask for (used by the history fields api_bad and accepted_good)
WellFormedLocations(text) ==
    /\ text.shape \in {"list", "wrapped", "object"}
    /\ text.items # <<>>
    /\ \A i \in 1..Len(text.items) : LocationCreateValid(text.items[i])

\* no trip prediction has been asked for
NoAsk ==
    [trip |-> [request_text |-> "", start_location |-> "", num_places |-> None],
     trip_type |-> several_places]

\* a handler (one HTTP request being served) with the chat client it owns.
\* History fields, not read by the program: before (messages when the
\* running prediction began), calls, excludes, n_requests, last (what the
\* latest attempt did), api_bad (some attempt was answered by anything but a
\* well-formed list), accepted_good (the accepted text was well-formed),
\* response (how the retry call ended), passed (the previous trips handed to
\* get_exlude_locations_prediction on this client, in call order), yielded
\* (what the prediction gave the route: "raised", "empty", a list with an
\* "invalid" record, or a "valid" list), answer (the text of the latest
\* completion), result (the text the retry call returned), n_transient (the
\* attempts of the running call that failed with a class the except clause
\* of line 116 names), asked (the arguments of the running
\* get_trip_prediction), target (the request_id parameter of an exclusion
\* request)
IdleHandler ==
    [pc |-> "idle", kind |-> "none", request_id |-> None,
     trip_type |-> several_places, num_places |-> None,
     messages |-> <<>>, before |-> <<>>, calls |-> 0,
     attempt |-> 0, wait_time |-> Unbound, n_requests |-> 0, last |-> "none",
     n_transient |-> 0, asked |-> NoAsk, target |-> None,
     api_bad |-> FALSE, accepted_good |-> FALSE, excludes |-> 0,
     passed |-> <<>>, yielded |-> "none", answer |-> NoText, result |-> NoText,
     response |-> "none", prediction |-> Ok(<<>>),
     parent_id |-> None, trip_id |-> None, locations_list |-> <<>>,
     status |-> 0, detail |-> "", exc |-> ""]

\* get_completions_create_response has returned `text` (how = "text"),
\* returned None (how = "None") or raised `exc` (how = "raised"): the rest of
\* get_trip_prediction / get_exlude_locations_prediction, i.e. parse_response,
\* the except ChatGPTError clause and the finally block
EndCall(rec, how, text, exc) ==
    LET prediction ==
            IF how = "raised"
            THEN (IF exc = "ChatGPTError" THEN Ok(<<>>) ELSE Raise(exc))
            ELSE parse_response(IF how = "None" THEN NoText ELSE text)
    IN
    [rec EXCEPT
        !.pc = "returned",
        !.attempt = 0, !.wait_time = Unbound,
        !.response = how,
        !.result = IF how = "text" THEN text ELSE NoText,
        !.accepted_good = (how = "text" /\ WellFormedLocations(text)),
        !.prediction = prediction,
        !.yielded = IF ~prediction.ok THEN "raised"
                    ELSE IF prediction.val = <<>> THEN "empty"
                    ELSE IF HasInvalidRecord(prediction.val) THEN "invalid"
                    ELSE "valid",
        !.messages = IF rec.kind = "exclude" THEN FinallyExclude(rec.messages)
                     ELSE FinallyTrip(rec.messages)]

\* a loop that sleeps and goes on after an acceptable response
AfterAttempt_KeepsTrying(called, outcome) ==
    LET rec == [called EXCEPT
                   !.answer = outcome.text,
                   !.n_transient = called.n_transient
                       + (IF outcome.exc \in RetriedClasses THEN 1 ELSE 0),
                   !.api_bad = called.api_bad
                               \/ ~(outcome.ok /\ WellFormedLocations(outcome.text))]
    IN
    IF outcome.ok
    THEN IF rec.num_places # None /\ TextLen(outcome.text) < rec.num_places
         THEN IF rec.wait_time = Unbound
              THEN EndCall([rec EXCEPT !.last = "short"],
                           "raised", NoText, "UnboundLocalError")
              ELSE [rec EXCEPT !.pc = "sleep", !.last = "short"]
         ELSE [rec EXCEPT !.pc = "sleep", !.last = "accepted",
                          !.wait_time = BackoffWait(rec.attempt)]
    ELSE IF IsRetried(outcome.exc)
         THEN [rec EXCEPT !.wait_time = BackoffWait(rec.attempt),
                          !.pc = "sleep", !.last = outcome.exc]
         ELSE IF outcome.exc = "ChatGPTError"
              THEN EndCall([rec EXCEPT !.last = outcome.exc], "None", NoText, "")
              ELSE EndCall([rec EXCEPT !.last = outcome.exc],
                           "raised", NoText, outcome.exc)

\* the body of one iteration of the retry loop after the await at line 97
\* has completed with `outcome` (lines 104-133)
AfterAttempt(called, outcome) ==
    LET rec == [called EXCEPT
                   !.answer = outcome.text,
                   !.n_transient = called.n_transient
                       + (IF outcome.exc \in RetriedClasses THEN 1 ELSE 0),
                   !.api_bad = called.api_bad
                               \/ ~(outcome.ok /\ WellFormedLocations(outcome.text))]
    IN
    IF outcome.ok
    THEN IF rec.num_places # None /\ TextLen(outcome.text) < rec.num_places
         THEN IF rec.wait_time = Unbound
              THEN EndCall([rec EXCEPT !.last = "short"],
                           "raised", NoText, "UnboundLocalError")
              ELSE [rec EXCEPT !.pc = "sleep", !.last = "short"]
         ELSE EndCall([rec EXCEPT !.last = "accepted"], "text", outcome.text, "")
    ELSE IF IsRetried(outcome.exc)
         THEN [rec EXCEPT !.wait_time = BackoffWait(rec.attempt),
                          !.pc = "sleep", !.last = outcome.exc]
         ELSE IF outcome.exc = "ChatGPTError"
              THEN EndCall([rec EXCEPT !.last = outcome.exc], "None", NoText, "")
              ELSE EndCall([rec EXCEPT !.last = outcome.exc],
                           "raised", NoText, outcome.exc)

\* a loop that raises when its attempts are used up
AfterSleep_RaisesWhenExhausted(rec) ==
    IF rec.attempt + 1 < max_retries
    THEN [rec EXCEPT !.attempt = rec.attempt + 1, !.pc = "api", !.last = "none"]
    ELSE EndCall([rec EXCEPT !.last = "none"], "raised", NoText, "ChatGPTError")

\* a loop that appends a reminder to the conversation before it tries again
AfterSleep_AddsReminder(rec) ==
    IF rec.attempt + 1 < max_retries
    THEN [rec EXCEPT !.attempt = rec.attempt + 1, !.pc = "api", !.last = "none",
                     !.messages = add_message(rec.messages, "user",
                                              <<P("Try again")>>)]
    ELSE EndCall([rec EXCEPT !.last = "none"], "None", NoText, "")

\* a loop that runs one iteration too many
AfterSleep_ExtraAttempt(rec) ==
    IF rec.attempt < max_retries
    THEN [rec EXCEPT !.attempt = rec.attempt + 1, !.pc = "api", !.last = "none"]
    ELSE EndCall([rec EXCEPT !.last = "none"], "None", NoText, "")

\* asyncio.sleep has completed: next iteration of `for attempt in
\* range(max_retries)`, or the return None of line 136
AfterSleep(rec) ==
    IF rec.attempt + 1 < max_retries
    THEN [rec EXCEPT !.attempt = rec.attempt + 1, !.pc = "api", !.last = "none"]
    ELSE EndCall([rec EXCEPT !.last = "none"], "None", NoText, "")

\* get_trip_prediction up to its first await
StartTripPrediction(rec, trip, trip_type) ==
    [rec EXCEPT
        !.kind = "create",
        !.asked = [trip |-> trip, trip_type |-> trip_type],
        !.before = rec.messages,
        !.messages = add_message(rec.messages, "user",
                                 TripUserMessage(trip, trip_type)),
        !.calls = rec.calls + 1,
        !.num_places = trip.num_places,
        !.attempt = 0, !.wait_time = Unbound, !.n_requests = 0, !.n_transient = 0,
        !.last = "none", !.response = "none", !.prediction = Ok(<<>>),
        !.api_bad = FALSE, !.accepted_good = FALSE, !.yielded = "none",
        !.answer = NoText, !.result = NoText,
        !.pc = "api"]

\* get_exlude_locations_prediction up to its first await; the call of line
\* 213 passes no argument
StartExcludePrediction(rec, previous_trip, exclude_text) ==
    LET started ==
            [rec EXCEPT
                !.kind = "exclude",
                !.asked = NoAsk,
                !.before = rec.messages,
                !.messages = rec.messages
                             \o ExcludeUserMessages(previous_trip, exclude_text),
                !.calls = rec.calls + 1,
                !.excludes = rec.excludes + 1,
                !.num_places = None,
                !.attempt = 0, !.wait_time = Unbound, !.n_requests = 0, !.n_transient = 0,
                !.last = "none", !.response = "none", !.prediction = Ok(<<>>),
                !.api_bad = FALSE, !.accepted_good = FALSE, !.yielded = "none",
        !.answer = NoText, !.result = NoText,
                !.pc = "api"]
    IN  IF CallBinds(ExcludeCallArgs) THEN started
        ELSE EndCall(started, "raised", NoText, "TypeError")

\* one step of a running call: the pending await completes
CallStep(rec) ==
    CASE rec.pc = "api" ->
            {AfterAttempt([rec EXCEPT !.n_requests = rec.n_requests + 1], outcome) :
                outcome \in ApiOutcomes}
      [] rec.pc = "sleep" -> {AfterSleep(rec)}
      [] OTHER -> {rec}

\* all the ways the calls of `running` can end (each record at "returned")
RECURSIVE CallResults(_)
CallResults(running) ==
    IF \A rec \in running : rec.pc = "returned" THEN running
    ELSE CallResults(UNION {CallStep(rec) : rec \in running})

---------------------------------------------------------------------------
(* app/services.py: storage *)

\* a lookup that falls back to the latest trip
TripsOfRequest_OrLatest(request_id) ==
    IF \E i \in 1..Len(trips) : trips[i].request_id = request_id
    THEN {i \in 1..Len(trips) : trips[i].request_id = request_id}
    ELSE {i \in 1..Len(trips) : i = Len(trips)}

\* TripService.get_trip_by_request_id: the ids of the matching rows
TripsOfRequest(request_id) ==
    {i \in 1..Len(trips) : trips[i].request_id = request_id}

\* a trip row whose num_places is the requested instead of the produced count
TripCreate_NoCount(request_id, parent_id, prediction_locations_list, trip_type) ==
    [request_id |-> request_id,
     parent_id |-> parent_id,
     response_json |-> prediction_locations_list,
     num_places |-> None,
     trip_type |-> trip_type]

\* a trip row that takes the id of the latest stored request instead of the
\* id of the request being served
TripCreate_LatestRequest(request_id, parent_id, prediction_locations_list, trip_type) ==
    [request_id |-> requests,
     parent_id |-> parent_id,
     response_json |-> prediction_locations_list,
     num_places |-> Len(prediction_locations_list),
     trip_type |-> trip_type]

\* TripCreate(...) as built by the routes (routes.py 67-75, 142-150)
TripCreate(request_id, parent_id, prediction_locations_list, trip_type) ==
    [request_id |-> request_id,
     parent_id |-> parent_id,
     response_json |-> prediction_locations_list,
     num_places |-> Len(prediction_locations_list),
     trip_type |-> trip_type]

\* an order assignment that continues from the trip's id
LocationsForTrip_FromTripId(trip_id, locations_data) ==
    [i \in 1..Len(locations_data) |->
        [locations_data[i] EXCEPT !.trip_id = trip_id, !.order = trip_id + i - 1]]

\* an order assignment that counts from 0
LocationsForTrip_ZeroBased(trip_id, locations_data) ==
    [i \in 1..Len(locations_data) |->
        [locations_data[i] EXCEPT !.trip_id = trip_id, !.order = i - 1]]

\* LocationService.create_locations_for_trip, lines 182-184
LocationsForTrip(trip_id, locations_data) ==
    [i \in 1..Len(locations_data) |->
        [locations_data[i] EXCEPT !.trip_id = trip_id, !.order = i]]

LocationsOfTrip(trip_id) ==
    {i \in 1..Len(locations) : locations[i].trip_id = trip_id}

\* the HTTP response of a handler
Respond(rec, status, detail, exc) ==
    [rec EXCEPT !.pc = "respond", !.status = status, !.detail = detail,
                !.exc = exc, !.locations_list = <<>>, !.prediction = Ok(<<>>),
                !.messages = <<>>, !.before = <<>>, !.last = "none",
                !.n_requests = 0, !.n_transient = 0, !.asked = NoAsk,
                !.num_places = None, !.calls = 0,
                !.excludes = 0, !.answer = NoText, !.result = NoText]

\* a route that stores the trip row before it validates the prediction
RouteContinue_StoresFirst(rec) ==
    LET valid == validate_prediction_locations(rec.prediction.val)
    IN  IF ~rec.prediction.ok
        THEN [h |-> Respond(rec, 500, "Internal Server Error", rec.prediction.exc),
              rows |-> <<>>]
        ELSE IF ~valid.ok
        THEN [h |-> IF valid.exc = "HTTPException"
                    THEN Respond(rec, 400, valid.detail, valid.exc)
                    ELSE Respond(rec, 500, "Internal Server Error", valid.exc),
              rows |-> <<TripCreate(rec.request_id, rec.parent_id,
                                    rec.prediction.val, rec.trip_type)>>]
        ELSE [h |-> [rec EXCEPT !.pc = "locs",
                                !.trip_id = Len(trips) + 1,
                                !.messages = <<>>, !.before = <<>>,
                                !.last = "none", !.n_requests = 0, !.n_transient = 0,
                                !.asked = NoAsk,
                                !.num_places = None, !.calls = 0,
                                !.excludes = 0, !.prediction = Ok(<<>>),
                                !.answer = NoText, !.result = NoText,
                                !.locations_list = valid.val],
              rows |-> <<TripCreate(rec.request_id, rec.parent_id,
                                    rec.prediction.val, rec.trip_type)>>]

\* the route after the prediction has returned `rec.prediction` (or raised):
\* validate_prediction_locations and trip_service.create_trip, whose commit
\* adds the trip row; `rows` is what the commit appends to table "trips"
RouteContinue(rec) ==
    LET valid == validate_prediction_locations(rec.prediction.val)
    IN  IF ~rec.prediction.ok
        THEN [h |-> Respond(rec, 500, "Internal Server Error", rec.prediction.exc),
              rows |-> <<>>]
        ELSE IF ~valid.ok
        THEN [h |-> IF valid.exc = "HTTPException"
                    THEN Respond(rec, 400, valid.detail, valid.exc)
                    ELSE Respond(rec, 500, "Internal Server Error", valid.exc),
              rows |-> <<>>]
        ELSE [h |-> [rec EXCEPT !.pc = "locs",
                                !.trip_id = Len(trips) + 1,
                                !.messages = <<>>, !.before = <<>>,
                                !.last = "none", !.n_requests = 0, !.n_transient = 0,
                                !.asked = NoAsk,
                                !.num_places = None, !.calls = 0,
                                !.excludes = 0, !.prediction = Ok(<<>>),
                                !.answer = NoText, !.result = NoText,
                                !.locations_list = valid.val],
              rows |-> <<TripCreate(rec.request_id, rec.parent_id,
                                    rec.prediction.val, rec.trip_type)>>]

\* no response text is under way
NoCall ==
    [pc |-> "none", text |-> NoText, parsed |-> Ok(<<>>), ordered |-> Ok(<<>>),
     valid |-> Ok(<<>>), trip_id |-> None, payload |-> <<>>, rows |-> <<>>]

---------------------------------------------------------------------------
(* The server: concurrent request handlers over one database *)

\* a new request is served by the first idle worker (the workers are
\* interchangeable)
FirstIdle(w) ==
    /\ h[w].pc = "idle"
    /\ \A v \in Workers : h[v].pc = "idle" => ~(v = "w1" /\ w # "w1")

Init ==
    /\ requests = 0
    /\ trips = <<>>
    /\ locations = <<>>
    /\ h = [w \in Workers |-> IdleHandler]
    /\ call = NoCall

\* clients that keep their messages in one list of the class: a new client
\* starts from what the clients of the running requests have appended
DispatchCreate_SharedMessages(w) ==
    /\ FirstIdle(w)
    /\ requests < MaxRequests
    /\ \E trip \in TripCreateRequests, trip_type \in TripTypeEnum :
         LET others == CHOOSE v \in Workers : v # w
         IN  h' = [h EXCEPT ![w] =
                 StartTripPrediction(
                     [IdleHandler EXCEPT
                         !.request_id = requests + 1,
                         !.trip_type = trip_type,
                         !.messages = h[others].messages
                                      \o NewClientMessages(trip_type)],
                     trip, trip_type)]
    /\ requests' = requests + 1
    /\ UNCHANGED <<trips, locations, call>>

\* POST /trip/ : the middleware stores the request row, create_trip builds
\* its client and runs get_trip_prediction up to the first await
DispatchCreate(w) ==
    /\ FirstIdle(w)
    /\ requests < MaxRequests
    /\ \E trip \in TripCreateRequests, trip_type \in TripTypeEnum :
         h' = [h EXCEPT ![w] =
                 StartTripPrediction(
                     [IdleHandler EXCEPT
                         !.request_id = requests + 1,
                         !.trip_type = trip_type,
                         !.messages = NewClientMessages(trip_type)],
                     trip, trip_type)]
    /\ requests' = requests + 1
    /\ UNCHANGED <<trips, locations, call>>

\* an exclusion that clears the payload of the trip it refines
DispatchExclude_ClearsParent(w) ==
    /\ FirstIdle(w)
    /\ requests < MaxRequests
    /\ \E request_id \in 1..MaxRequests, exclude_text \in ExcludeTexts :
         LET found == TripsOfRequest(request_id)
             rec == [IdleHandler EXCEPT !.kind = "exclude",
                                        !.target = request_id,
                                        !.request_id = requests + 1]
         IN  IF found = {}
             THEN /\ h' = [h EXCEPT ![w] =
                             Respond(rec, 404,
                                     "Trip not found for the given request ID",
                                     "HTTPException")]
                  /\ UNCHANGED trips
             ELSE IF Cardinality(found) > 1
             THEN /\ h' = [h EXCEPT ![w] =
                             Respond(rec, 500, "Internal Server Error",
                                     "MultipleResultsFound")]
                  /\ UNCHANGED trips
             ELSE LET id == CHOOSE i \in found : TRUE
                      previous_trip == trips[id]
                      started ==
                          StartExcludePrediction(
                              [rec EXCEPT
                                  !.trip_type = previous_trip.trip_type,
                                  !.parent_id = id,
                                  !.messages =
                                      NewClientMessages(previous_trip.trip_type)],
                              previous_trip, exclude_text)
                      next == RouteContinue(started)
                  IN  IF started.pc = "returned"
                      THEN /\ h' = [h EXCEPT ![w] = next.h]
                           /\ trips' = [trips EXCEPT ![id].response_json = <<>>]
                                        \o next.rows
                      ELSE /\ h' = [h EXCEPT ![w] = started]
                           /\ UNCHANGED trips
    /\ requests' = requests + 1
    /\ UNCHANGED <<locations, call>>

\* POST /trip/exclude?request_id=.. : the middleware stores the request
\* row, the route looks the previous trip up, builds its client and runs
\* get_exlude_locations_prediction up to the first await
DispatchExclude(w) ==
    /\ FirstIdle(w)
    /\ requests < MaxRequests
    /\ \E request_id \in 1..MaxRequests, exclude_text \in ExcludeTexts :
         LET found == TripsOfRequest(request_id)
             rec == [IdleHandler EXCEPT !.kind = "exclude",
                                        !.target = request_id,
                                        !.request_id = requests + 1]
         IN  IF found = {}
             THEN /\ h' = [h EXCEPT ![w] =
                             Respond(rec, 404,
                                     "Trip not found for the given request ID",
                                     "HTTPException")]
                  /\ UNCHANGED trips
             ELSE IF Cardinality(found) > 1
             THEN /\ h' = [h EXCEPT ![w] =
                             Respond(rec, 500, "Internal Server Error",
                                     "MultipleResultsFound")]
                  /\ UNCHANGED trips
             ELSE LET id == CHOOSE i \in found : TRUE
                      previous_trip == trips[id]
                      started ==
                          StartExcludePrediction(
                              [rec EXCEPT
                                  !.trip_type = previous_trip.trip_type,
                                  !.parent_id = id,
                                  !.messages =
                                      NewClientMessages(previous_trip.trip_type)],
                              previous_trip, exclude_text)
                      next == RouteContinue(started)
                  IN  IF started.pc = "returned"
                      THEN /\ h' = [h EXCEPT ![w] = next.h]
                           /\ trips' = trips \o next.rows
                      ELSE /\ h' = [h EXCEPT ![w] = started]
                           /\ UNCHANGED trips
    /\ requests' = requests + 1
    /\ UNCHANGED <<locations, call>>

\* the await of the prediction completes: the bounded-retry call has run
\* through its attempts and sleeps (which touch only this handler's client),
\* and the route continues, without another await, to create_trip's commit
Predict(w) ==
    /\ h[w].pc \in {"api", "sleep"}
    /\ \E rec \in CallResults({h[w]}) :
         LET next == RouteContinue(rec)
         IN  /\ h' = [h EXCEPT ![w] = next.h]
             /\ trips' = trips \o next.rows
    /\ UNCHANGED <<requests, locations, call>>

\* locations_service.create_locations_for_trip: flush and commit, or (on a
\* database error) rollback and re-raise
CommitLocations(w) ==
    /\ h[w].pc = "locs"
    /\ \E db_ok \in BOOLEAN :
         IF db_ok
         THEN /\ locations' = locations
                     \o LocationsForTrip(h[w].trip_id, h[w].locations_list)
              /\ h' = [h EXCEPT ![w] = Respond(h[w], 201, "", "")]
         ELSE /\ UNCHANGED locations
              /\ h' = [h EXCEPT ![w] =
                         Respond(h[w], 500, "Internal Server Error",
                                 "SQLAlchemyError")]
    /\ UNCHANGED <<requests, trips, call>>

\* the response is sent; the handler and its client are gone
Finish(w) ==
    /\ h[w].pc = "respond"
    /\ h' = [h EXCEPT ![w] = IdleHandler]
    /\ UNCHANGED <<requests, trips, locations, call>>

Next ==
    \E w \in Workers :
        \/ DispatchCreate(w)
        \/ DispatchExclude(w)
        \/ Predict(w)
        \/ CommitLocations(w)
        \/ Finish(w)

Spec == Init /\ [][Next]_vars

---------------------------------------------------------------------------
(* One OpenAIChatClientTrip instance under a sequence of calls, each await
   of the bounded retry taken as a step of its own *)

ClientWorker == "w1"

\* Trip objects that may be passed to get_exlude_locations_prediction
PreviousTrips ==
    { TripCreate(1, None, <<Eiffel, Kyiv, Berlin>>, by_place),
      TripCreate(2, 1, <<Kyiv>>, several_places) }

\* OpenAIChatClientTrip(api_key, model, trip_type)
ClientConstruct(w) ==
    /\ h[w].pc = "idle"
    /\ \E trip_type \in TripTypes :
         h' = [h EXCEPT ![w] =
                 [IdleHandler EXCEPT !.pc = "ready",
                                     !.trip_type = trip_type,
                                     !.messages = NewClientMessages(trip_type)]]
    /\ UNCHANGED <<requests, trips, locations, call>>

\* await client.get_trip_prediction(trip, trip_type), up to the first await
ClientCallTrip(w) ==
    /\ h[w].pc = "ready"
    /\ h[w].calls < MaxCalls
    /\ \E trip \in TripCreateRequests, trip_type \in TripTypeEnum :
         h' = [h EXCEPT ![w] = StartTripPrediction(h[w], trip, trip_type)]
    /\ UNCHANGED <<requests, trips, locations, call>>

\* await client.get_exlude_locations_prediction(previous_trip, exclude_text)
ClientCallExclude(w) ==
    /\ h[w].pc = "ready"
    /\ h[w].calls < MaxCalls
    /\ \E previous_trip \in PreviousTrips, exclude_text \in ExcludeTexts :
         h' = [h EXCEPT ![w] =
                 StartExcludePrediction(
                     [h[w] EXCEPT !.passed = Append(h[w].passed, previous_trip)],
                     previous_trip, exclude_text)]
    /\ UNCHANGED <<requests, trips, locations, call>>

\* the await of completions.create completes with some outcome
ApiCall(w) ==
    /\ h[w].pc = "api"
    /\ \E outcome \in ApiOutcomes :
         h' = [h EXCEPT ![w] =
                 AfterAttempt([h[w] EXCEPT !.n_requests = h[w].n_requests + 1],
                              outcome)]
    /\ UNCHANGED <<requests, trips, locations, call>>

\* the await of asyncio.sleep(wait_time) completes
Sleep(w) ==
    /\ h[w].pc = "sleep"
    /\ h' = [h EXCEPT ![w] = AfterSleep(h[w])]
    /\ UNCHANGED <<requests, trips, locations, call>>

\* the caller has the result (or the exception) of the prediction
ClientReturn(w) ==
    /\ h[w].pc = "returned"
    /\ h' = [h EXCEPT ![w] =
               [IdleHandler EXCEPT !.pc = "ready",
                                   !.trip_type = h[w].trip_type,
                                   !.messages = h[w].messages,
                                   !.calls = h[w].calls,
                                   !.excludes = h[w].excludes,
                                   !.passed = h[w].passed]]
    /\ UNCHANGED <<requests, trips, locations, call>>

ClientNext ==
    \/ ClientConstruct(ClientWorker)
    \/ ClientCallTrip(ClientWorker)
    \/ ClientCallExclude(ClientWorker)
    \/ ApiCall(ClientWorker)
    \/ Sleep(ClientWorker)
    \/ ClientReturn(ClientWorker)

ClientSpec == Init /\ [][ClientNext]_vars

\* asyncio.sleep returns once its delay (at most max_wait seconds) is over
ClientFairSpec == ClientSpec /\ WF_vars(Sleep(ClientWorker))

---------------------------------------------------------------------------
(* One response text taken through parse_response, order_locations_by_distance,
   validate_prediction_locations and the order assignment of
   create_locations_for_trip *)

\* JSON objects a response text may hold
RawObjects ==
    {Eiffel, Berlin, Kyiv, BerlinWall, Nowhere, NoLat, NoName, LongName}

Batches == UNION {[1..n -> RawObjects] : n \in 0..MaxBatch}

\* valid JSON that is neither an object nor a list: 5, null, true
OtherJsonShapes == {"number", "null", "boolean"}

PipelineTexts ==
    {Text("list", b) : b \in Batches}
    \cup {Text("wrapped", b) : b \in Batches}
    \cup {Text("object", b) : b \in {c \in Batches : Len(c) = 1}}
    \cup {Text("garbage", <<>>)}
    \cup {Text(shape, <<>>) : shape \in OtherJsonShapes}

PipelineInit ==
    /\ requests = 0
    /\ trips = <<>>
    /\ locations = <<>>
    /\ h = [w \in Workers |-> IdleHandler]
    /\ call \in {[NoCall EXCEPT !.pc = "text", !.text = t] : t \in PipelineTexts}

\* self.parse_response(response_text)
ParseResponse ==
    /\ call.pc = "text"
    /\ call' = [call EXCEPT !.pc = "parsed", !.parsed = parse_response(call.text)]
    /\ UNCHANGED <<requests, trips, locations, h>>

\* order_locations_by_distance on the parsed list
OrderLocations ==
    /\ call.pc = "parsed"
    /\ call.parsed.ok
    /\ call' = [call EXCEPT
                   !.pc = "ordered",
                   !.ordered = order_locations_by_distance(call.parsed.val)]
    /\ UNCHANGED <<requests, trips, locations, h>>

\* validate_prediction_locations on the parsed list
ValidateLocations ==
    /\ call.pc = "ordered"
    /\ call' = [call EXCEPT
                   !.pc = "validated",
                   !.valid = validate_prediction_locations(call.parsed.val)]
    /\ UNCHANGED <<requests, trips, locations, h>>

\* the route after a successful validation: the trip row takes the parsed
\* list as its response_json (routes.py:71), and create_locations_for_trip
\* runs on the validator's list, for some trip id
CreateLocationsForTrip ==
    /\ call.pc = "validated"
    /\ call.valid.ok
    /\ \E trip_id \in 1..2 :
         call' = [call EXCEPT
                     !.pc = "rows",
                     !.trip_id = trip_id,
                     !.payload = call.parsed.val,
                     !.rows = LocationsForTrip(trip_id, call.valid.val)]
    /\ UNCHANGED <<requests, trips, locations, h>>

PipelineNext ==
    \/ ParseResponse
    \/ OrderLocations
    \/ ValidateLocations
    \/ CreateLocationsForTrip

PipelineSpec == PipelineInit /\ [][PipelineNext]_vars

---------------------------------------------------------------------------
(* Claims *)

client == h[ClientWorker]

\* the failures the retry loop is meant to retry with backoff
TransientFailures == {"RateLimitError", "Timeout", "APIConnectionError", "APIError"}

\* C1: an exclusion request whose previous trip exists, and whose API
\* requests (if any) were all answered by a well-formed list of valid
\* locations, ends with a new trip row whose parent_id is the previous
\* trip's id and whose trip_type is the previous trip's.
C1_ExclusionTripPersisted ==
    \A w \in Workers :
        (/\ h[w].pc = "respond"
         /\ h[w].kind = "exclude"
         /\ h[w].parent_id # None
         /\ ~h[w].api_bad)
        => \E i \in TripsOfRequest(h[w].request_id) :
               /\ trips[i].parent_id = h[w].parent_id
               /\ trips[i].trip_type = trips[h[w].parent_id].trip_type

\* C2: once create_trip's retry call has returned a well-formed non-empty
\* list of valid locations, exactly one trip row belongs to the request; its
\* parent_id is null, its trip_type the requested one, and its num_places the
\* number of locations produced (the validated list, then the stored rows).
C2_CreateTripPersistsOne ==
    \A w \in Workers :
        (/\ h[w].kind = "create"
         /\ h[w].pc \in {"locs", "respond"}
         /\ h[w].accepted_good)
        => /\ Cardinality(TripsOfRequest(h[w].request_id)) = 1
           /\ TripsOfRequest(h[w].request_id) = {h[w].trip_id}
           /\ trips[h[w].trip_id].parent_id = None
           /\ trips[h[w].trip_id].trip_type = h[w].trip_type
           /\ h[w].pc = "locs"
                => trips[h[w].trip_id].num_places = Len(h[w].locations_list)
           /\ (h[w].pc = "respond" /\ h[w].status = 201)
                => trips[h[w].trip_id].num_places
                     = Cardinality(LocationsOfTrip(h[w].trip_id))

C2_Witness ==
    \E w \in Workers :
        /\ h[w].kind = "create"
        /\ h[w].pc = "respond"
        /\ h[w].status = 201
        /\ h[w].accepted_good
        /\ h[w].trip_type = by_place
        /\ trips[h[w].trip_id].num_places = 3

\* C3: in every storage state, every trip row's num_places equals the
\* number of its location rows and the length of its response_json.
C3_CountsAgree ==
    \A i \in 1..Len(trips) :
        /\ trips[i].num_places = Cardinality(LocationsOfTrip(i))
        /\ trips[i].num_places = Len(trips[i].response_json)

\* C5: one bounded-retry call issues at most 4 completion requests.
C5_AtMostFourRequests == client.n_requests <= 4

C5_Witness == client.n_requests = 4 /\ client.pc = "sleep"

\* C6: while the call sleeps after a transient failure of the attempt with
\* 0-based index a, the wait is 1, 2, 4, 8 seconds for a = 0, 1, 2, 3 (so
\* 1 s, 2 s, 4 s before attempts 2, 3, 4), and no sleep is longer than 8 s.
C6_BackoffSchedule ==
    client.pc = "sleep"
    => /\ client.last \in TransientFailures
            => client.wait_time = <<1, 2, 4, 8>>[client.attempt + 1]
       /\ client.wait_time >= 1 /\ client.wait_time <= 8

C6_Witness ==
    /\ client.pc = "sleep"
    /\ client.last = "Timeout"
    /\ client.attempt = 2
    /\ client.wait_time = 4

\* C7: after an attempt failed with AuthenticationError the call neither
\* sleeps nor issues another request; on attempt 1 exactly one request was
\* made.
C7_AuthNotRetried ==
    client.last = "AuthenticationError"
    => /\ client.pc = "returned"
       /\ client.attempt = 0 => client.n_requests = 1

\* C8: after a response shorter than the hint the call sleeps for a defined
\* duration (and then goes on to the next attempt or returns None).
C8_ShortResponseSleeps ==
    client.last = "short"
    => /\ client.pc = "sleep"
       /\ client.wait_time # Unbound

\* C9: a request whose retry call returned None is answered with the
\* client-visible "No locations generated" failure.
C9_NoneIsNoLocations ==
    \A w \in Workers :
        (h[w].pc = "respond" /\ h[w].response = "None")
        => /\ h[w].status = 400
           /\ h[w].detail = "No locations generated"

\* C10: when get_trip_prediction has returned or raised, the messages are
\* those it found; on an instance that only ran get_trip_prediction they are
\* the single system message chosen at construction.
C10_TripPredictionRestoresMessages ==
    /\ (client.pc = "returned" /\ client.kind = "create")
          => client.messages = client.before
    /\ (client.pc \in {"ready", "returned"} /\ client.excludes = 0)
          => client.messages = NewClientMessages(client.trip_type)

C10_Witness ==
    /\ client.pc = "returned"
    /\ client.kind = "create"
    /\ client.calls = 2
    /\ client.excludes = 0
    /\ ~client.prediction.ok
    /\ client.messages = NewClientMessages(client.trip_type)

\* the "previous generated trip" message of an exclusion call
PreviousTripMessage(previous_trip) ==
    Message("user", <<P("Previous generated trip was: "),
                      J(previous_trip.response_json)>>)

\* C11: when get_exlude_locations_prediction has returned or raised, the
\* messages are those it found plus the one "previous generated trip"
\* message of this call; on an instance that only ran exclusion calls they
\* are the system message followed by one such message per call, in call
\* order.
C11_ExclusionKeepsPreviousTripMessage ==
    /\ (client.pc = "returned" /\ client.kind = "exclude")
          => client.messages
               = Append(client.before,
                        PreviousTripMessage(client.passed[Len(client.passed)]))
    /\ (client.pc \in {"ready", "returned"} /\ client.calls = client.excludes)
          => client.messages
               = NewClientMessages(client.trip_type)
                 \o [i \in 1..Len(client.passed) |->
                        PreviousTripMessage(client.passed[i])]

C11_Witness ==
    /\ client.pc = "returned"
    /\ client.kind = "exclude"
    /\ client.calls = 2
    /\ client.excludes = 2
    /\ Len(client.messages) = 3
    /\ client.passed[1] # client.passed[2]
    /\ ~client.prediction.ok

\* C12: when any record of a parsed batch fails promotion (missing required
\* field, out-of-range coordinate, over-long field), validation ends with
\* the "Invalid location data" failure and no record goes on to be stored.
C12_InvalidRecordFailsBatch ==
    (/\ call.pc \in {"validated", "rows"}
     /\ call.parsed.ok
     /\ HasInvalidRecord(call.parsed.val))
    => /\ call.valid.exc = "HTTPException"
       /\ call.valid.detail = "Invalid location data"
       /\ call.pc # "rows"

\* C13: a response text {"locations": [...]}, a bare list [...] and, for
\* one location, a single object {...} with the same content are parsed to
\* the same list, the list of that content.
C13_ShapesNormalizeAlike ==
    (call.pc # "none" /\ call.pc # "text"
     /\ call.text.shape \in {"list", "wrapped", "object"})
    => /\ call.parsed = Ok(call.text.items)
       /\ call.parsed = parse_response(Text("list", call.text.items))
       /\ call.parsed = parse_response(Text("wrapped", call.text.items))
       /\ Len(call.text.items) = 1
            => call.parsed = parse_response(Text("object", call.text.items))

C13_Witness ==
    /\ call.pc = "parsed"
    /\ call.text = Text("wrapped", <<Kyiv>>)
    /\ call.parsed.val = <<Kyiv>>
    /\ parse_response(Text("object", <<Kyiv>>)).val = <<Kyiv>>

\* how often x occurs in seq
Count(x, seq) == Cardinality({i \in 1..Len(seq) : seq[i] = x})

\* every object of the batch has both coordinates
AllHaveCoords(batch) == \A i \in 1..Len(batch) : HasCoords(batch[i])

\* C14: for every list of records with coordinates (valid or not, with or
\* without duplicates) order_locations_by_distance returns a list with the
\* same number of occurrences of every record; its first element is the
\* input's first element, and the empty list gives the empty list.
C14_OrderIsPermutation ==
    (call.pc \in {"ordered", "validated", "rows"} /\ AllHaveCoords(call.parsed.val))
    => /\ call.ordered.ok
       /\ Len(call.ordered.val) = Len(call.parsed.val)
       /\ \A x \in RawObjects :
             Count(x, call.ordered.val) = Count(x, call.parsed.val)
       /\ call.parsed.val # <<>> => call.ordered.val[1] = call.parsed.val[1]
       /\ call.parsed.val = <<>> => call.ordered.val = <<>>

C14_Witness ==
    /\ call.pc = "ordered"
    /\ call.parsed.val = <<Berlin, Kyiv, Berlin>>
    /\ call.ordered.val = <<Berlin, Berlin, Kyiv>>

\* distance between two records
Distance(a, b) ==
    haversine_distance(a.latitude, a.longitude, b.latitude, b.longitude)

\* position in seq of the n-th occurrence of x
NthIndex(seq, x, n) ==
    CHOOSE i \in 1..Len(seq) : seq[i] = x /\ Count(x, SubSeq(seq, 1, i)) = n

\* the records of inp not among the first k - 1 elements of out, and the
\* input position of the earliest copy of x still to be placed
NotYetPlaced(inp, out, k) ==
    {x \in RawObjects : Count(x, inp) > Count(x, SubSeq(out, 1, k - 1))}

FirstOpenPosition(inp, out, k, x) ==
    NthIndex(inp, x, Count(x, SubSeq(out, 1, k - 1)) + 1)

C16_OrderFollowsValidator ==
    \A t \in 1..Len(trips) :
        LET rows == LocationsOfTrip(t)
            N == Cardinality(rows)
            valid == validate_prediction_locations(trips[t].response_json)
        IN  N > 0
            => /\ {locations[i].order : i \in rows} = 1..N
               /\ valid.ok
               /\ Len(valid.val) = N
               /\ \A i \in rows :
                     locations[i]
                       = [valid.val[locations[i].order] EXCEPT
                             !.trip_id = t, !.order = locations[i].order]

C16_Witness ==
    \E t \in 1..Len(trips) :
        /\ trips[t].response_json = <<Eiffel, Kyiv, Berlin>>
        /\ Cardinality(LocationsOfTrip(t)) = 3
        /\ \E i \in LocationsOfTrip(t) :
              locations[i].order = 2 /\ locations[i].name = "Berlin"

\* the stored locations of a trip, each with its order value, without the
\* trip's id
OrderedLocations(t) ==
    {[locations[i] EXCEPT !.trip_id = None] : i \in LocationsOfTrip(t)}

\* C17: two create_trip runs that stored the same generative response and
\* whose locations were stored hold the same locations with the same order
\* values, whatever else is stored and whatever type each trip has.
C17_SameResponseSameOrder ==
    \A t1, t2 \in 1..Len(trips) :
        (/\ trips[t1].response_json = trips[t2].response_json
         /\ LocationsOfTrip(t1) # {}
         /\ LocationsOfTrip(t2) # {})
        => OrderedLocations(t1) = OrderedLocations(t2)

C17_Witness ==
    /\ Len(trips) = 2
    /\ trips[1].response_json = <<Eiffel, Kyiv, Berlin>>
    /\ trips[2].response_json = <<Eiffel, Kyiv, Berlin>>
    /\ trips[1].trip_type # trips[2].trip_type
    /\ Cardinality(LocationsOfTrip(1)) = 3
    /\ Cardinality(LocationsOfTrip(2)) = 3
    /\ locations[1].trip_id = 2

\* C18: a step of an exclusion request, whatever its outcome, leaves the
\* row of the previous trip and the location rows of that trip as they
\* were.
C18_ExclusionLeavesParent ==
    [][\A w \in Workers :
          (/\ h'[w] # h[w]
           /\ h'[w].kind = "exclude"
           /\ h'[w].parent_id # None)
          => LET p == h'[w].parent_id
             IN  /\ trips'[p] = trips[p]
                 /\ \A i \in 1..Len(locations) : locations'[i] = locations[i]
                 /\ {i \in 1..Len(locations') : locations'[i].trip_id = p}
                      = LocationsOfTrip(p)]_vars

C18_Witness ==
    \E w \in Workers :
        /\ h[w].pc = "respond"
        /\ h[w].kind = "exclude"
        /\ h[w].parent_id # None
        /\ h[w].status = 500
        /\ trips[h[w].parent_id].num_places = 3
        /\ Cardinality(LocationsOfTrip(h[w].parent_id)) = 3

\* C19: a request whose prediction gave zero locations (empty list, text
\* that is not JSON) or a list with a record that fails validation ends
\* with a failure response (for zero locations: 400 "No locations
\* generated"), and no trip row, hence no location row, belongs to it.
C19_FailedGenerationPersistsNothing ==
    \A w \in Workers :
        (/\ h[w].pc = "respond"
         /\ h[w].kind \in {"create", "exclude"}
         /\ h[w].yielded \in {"empty", "invalid"})
        => /\ h[w].status \in {400, 500}
           /\ h[w].yielded = "empty"
                => h[w].status = 400 /\ h[w].detail = "No locations generated"
           /\ TripsOfRequest(h[w].request_id) = {}
           /\ \A i \in 1..Len(locations) :
                 trips[locations[i].trip_id].request_id # h[w].request_id

C19_Witness ==
    \E w \in Workers :
        /\ h[w].pc = "respond"
        /\ h[w].kind = "create"
        /\ h[w].yielded = "invalid"
        /\ h[w].status = 400
        /\ h[w].request_id = 2
        /\ Len(trips) = 1
        /\ Len(locations) = 3

\* C20: when an attempt's completion succeeds with an acceptable text (no
\* hint, or at least as many characters as the hint), the retry call has
\* returned exactly that text: it is not sleeping and issues no further
\* request.
C20_AcceptedResponseReturnsAtOnce ==
    client.last = "accepted"
    => /\ client.pc = "returned"
       /\ client.response = "text"
       /\ client.answer # NoText
       /\ client.result = client.answer
       /\ client.num_places = None \/ TextLen(client.result) >= client.num_places

C20_Witness ==
    /\ client.last = "accepted"
    /\ client.pc = "returned"
    /\ client.num_places = 5
    /\ client.n_requests = 3
    /\ client.result = Text("list", <<Eiffel, Kyiv, Berlin>>)

\* C21: when each of the 4 attempts of a call has failed with a transient
\* API failure (rate limit, timeout, connection error, API error, in any
\* mix), the call terminates and returns None.
C21_ExhaustedRetriesReturnNone ==
    (client.n_transient = max_retries)
    ~> (/\ client.pc = "returned"
        /\ client.response = "None"
        /\ client.n_transient = max_retries
        /\ client.n_requests = max_retries)

C21_Witness ==
    /\ client.pc = "returned"
    /\ client.response = "None"
    /\ client.n_transient = 4
    /\ client.kind = "create"

\* C22: the call sleeps only between attempts: whenever it is sleeping,
\* fewer than 4 requests have been made (so a call sleeps at most 3 times
\* and returns right after its 4th attempt failed).
C22_SleepOnlyBetweenAttempts ==
    client.pc = "sleep" => client.n_requests < max_retries

\* C23: a failure that is none of the transient classes is not retried: the
\* call has returned None (it neither sleeps, nor tries again, nor lets the
\* exception out).
C23_OtherFailureReturnsNone ==
    client.last \in ApiErrors \ TransientFailures
    => /\ client.pc = "returned"
       /\ client.response = "None"

\* index of the earliest record of the batch that fails promotion
FirstInvalidIndex(batch) ==
    CHOOSE i \in 1..Len(batch) :
        /\ ~LocationCreateValid(batch[i])
        /\ \A j \in 1..(i - 1) : LocationCreateValid(batch[j])

\* C24: when validation ends with "Invalid location data", the failure
\* carries the earliest record of the batch that fails promotion.
C24_CarriesFirstOffendingRecord ==
    (/\ call.pc = "validated"
     /\ call.valid.exc = "HTTPException"
     /\ call.valid.detail = "Invalid location data")
    => call.valid.val = <<call.parsed.val[FirstInvalidIndex(call.parsed.val)]>>

\* C25: a response text that is valid JSON of another shape than object or
\* list (number, null, boolean) is parsed to zero locations and so ends
\* with "No locations generated".
C25_OtherShapesGiveNoLocations ==
    (call.pc = "parsed" /\ call.text.shape \in OtherJsonShapes)
    => /\ call.parsed.ok
       /\ call.parsed.val = <<>>
       /\ validate_prediction_locations(call.parsed.val)
            = HTTPException("No locations generated")

\* C26: as long as a client instance lives, under any sequence of
\* get_trip_prediction and get_exlude_locations_prediction calls with any
\* outcomes, the first message of its list is the system message chosen at
\* construction: the single-place prompt for by_place, the several-places
\* prompt for several_places and for any unknown trip type.
C26_SystemMessageStaysFirst ==
    client.pc # "idle"
    => /\ Len(client.messages) >= 1
       /\ client.messages[1].role = "system"
       /\ client.messages[1].content =
            <<P(IF client.trip_type = by_place
                THEN "TRIP_PROMPT_SINGLE_PLACE"
                ELSE "TRIP_PROMPT_SEVERAL_PLACES")>>
       /\ \A i \in 2..Len(client.messages) : client.messages[i].role # "system"

\* an instance built with an unknown trip type has been through a trip
\* prediction and an exclusion prediction
C26_Witness ==
    /\ client.pc = "returned"
    /\ client.trip_type \notin TripTypeEnum
    /\ client.calls >= 2
    /\ client.excludes >= 1
    /\ client.kind = "create"

\* C27: every attempt of one call of get_completions_create_response sends
\* the same message list: while the call runs (from its first request to its
\* last sleep), no step changes the client's messages, whatever the attempts'
\* outcomes.
C27_AttemptsSendSameMessages ==
    [][(client.pc \in {"api", "sleep"} /\ client'.pc \in {"api", "sleep"})
       => client'.messages = client.messages]_vars

\* the third request of one call is about to be sent, after two attempts
\* that were not accepted, one of them a failure of a retried class
C27_Witness ==
    /\ client.pc = "api"
    /\ client.attempt = 2
    /\ client.n_requests = 2
    /\ client.n_transient = 1
    /\ client.api_bad

\* the text of the user message get_trip_prediction sends
SentTripText == client.messages[Len(client.messages)].content

HasPart(content, part) == \E i \in 1..Len(content) : content[i] = part

\* C28: the user message of get_trip_prediction contains "num_places = n"
\* exactly when num_places is given and the trip type is not several_places,
\* contains the start location exactly when one is given, and always ends
\* with the instruction to return the locations in visiting order.
C28_TripMessageComposition ==
    (client.kind = "create" /\ client.pc \in {"api", "sleep"})
    => /\ client.messages[Len(client.messages)].role = "user"
       /\ (\E i \in 1..(Len(SentTripText) - 1) :
              /\ SentTripText[i] = P(", num_places = ")
              /\ SentTripText[i + 1] = P(ToString(client.asked.trip.num_places)))
          <=> (client.asked.trip.num_places # None
               /\ client.asked.trip_type # several_places)
       /\ HasPart(SentTripText, P("Start from Paris"))
          <=> client.asked.trip.start_location = "Start from Paris"
       /\ (client.asked.trip.start_location = ""
           => \A i \in 1..Len(SentTripText) : SentTripText[i] # P(" "))
       /\ HasPart(SentTripText, P(client.asked.trip.request_text))
       /\ SentTripText[Len(SentTripText)] =
            P(". Return a list of all locations in the order they should be visited.")

\* a several_places prediction with a count and a start location is running
C28_Witness ==
    /\ client.kind = "create"
    /\ client.pc = "api"
    /\ client.asked.trip_type = several_places
    /\ client.asked.trip.num_places = 5
    /\ client.asked.trip.start_location # ""

\* C29: whatever the interleaving of concurrent requests, the message list
\* a handler's client sends in a completion request holds the system message
\* of that handler's client and the messages that handler's own prediction
\* appended, and nothing else.
C29_ConversationIsolation ==
    \A w \in Workers :
        h[w].pc \in {"api", "sleep"}
        => /\ h[w].before = NewClientMessages(h[w].trip_type)
           /\ h[w].kind = "create"
              => h[w].messages =
                   <<Message("system", <<P(system_prompt(h[w].trip_type))>>),
                     Message("user", TripUserMessage(h[w].asked.trip,
                                                     h[w].asked.trip_type))>>
           /\ h[w].kind = "exclude"
              => /\ h[w].parent_id \in 1..Len(trips)
                 /\ SubSeq(h[w].messages, 1, 2) =
                      <<Message("system", <<P(system_prompt(h[w].trip_type))>>),
                        Message("user",
                                <<P("Previous generated trip was: "),
                                  J(trips[h[w].parent_id].response_json)>>)>>
                 /\ Len(h[w].messages) = 4

\* two requests with different bodies are waiting for their completions at
\* the same time
C29_Witness ==
    /\ h["w1"].pc = "api"
    /\ h["w2"].pc = "api"
    /\ h["w1"].asked # h["w2"].asked
    /\ h["w1"].messages # h["w2"].messages

\* C30: an exclusion request whose request_id has no stored trip is answered
\* with 404 "Trip not found for the given request ID" without any prediction
\* having been started (so no completion request was sent), and its step
\* leaves the tables of trips and locations as they were.
C30_MissingTripFailsLoudly ==
    [][\A w \in Workers :
         (/\ h[w].pc = "idle"
          /\ h'[w].kind = "exclude"
          /\ \A i \in 1..Len(trips) : trips[i].request_id # h'[w].target)
         => /\ h'[w].pc = "respond"
            /\ h'[w].status = 404
            /\ h'[w].detail = "Trip not found for the given request ID"
            /\ h'[w].exc = "HTTPException"
            /\ h'[w].response = "none"
            /\ h'[w].yielded = "none"
            /\ h'[w].parent_id = None
            /\ trips' = trips
            /\ locations' = locations]_vars

\* an exclusion request has been refused while trips and locations of other
\* requests are stored
C30_Witness ==
    \E w \in Workers :
        /\ h[w].pc = "respond"
        /\ h[w].kind = "exclude"
        /\ h[w].status = 404
        /\ \A i \in 1..Len(trips) : trips[i].request_id # h[w].target
        /\ Len(trips) >= 1
        /\ Len(locations) >= 1

\* C31: after any interleaving of create and exclusion requests, no two
\* stored trips have the same request_id, every trip's request_id is the id
\* of a stored request, and no lookup of a previous trip by request id has
\* found more than one row.
C31_OneTripPerRequest ==
    /\ \A i, j \in 1..Len(trips) :
          trips[i].request_id = trips[j].request_id => i = j
    /\ \A i \in 1..Len(trips) : trips[i].request_id \in 1..requests
    /\ \A w \in Workers : h[w].exc # "MultipleResultsFound"

\* two requests served at the same time have each stored a trip, the later
\* request first
C31_Witness ==
    /\ Len(trips) = 2
    /\ trips[1].request_id = 2
    /\ trips[2].request_id = 1

\* the place an object of the payload or a location row describes
Place(loc) ==
    [name |-> loc.name, latitude |-> loc.latitude, longitude |-> loc.longitude]

\* C32: when a trip's location rows have been built, the objects of the
\* trip's response_json and the rows describe the same multiset of places
\* (name, latitude, longitude): there are as many rows as objects, and each
\* place occurs as often in the rows as in the payload.
C32_PayloadAndRecordsSamePlaces ==
    call.pc = "rows"
    => /\ Len(call.rows) = Len(call.payload)
       /\ call.payload # <<>>
       /\ \A i \in 1..Len(call.payload) :
             /\ LocationCreateValid(call.payload[i])
             /\ Cardinality({k \in 1..Len(call.rows) :
                                Place(call.rows[k]) = Place(call.payload[i])})
                = Cardinality({k \in 1..Len(call.payload) :
                                  Place(call.payload[k]) = Place(call.payload[i])})

\* rows have been built for a payload that names one place twice, in an
\* order other than the payload's
C32_Witness ==
    /\ call.pc = "rows"
    /\ \E i, j \in 1..Len(call.payload) :
          i # j /\ call.payload[i] = call.payload[j]
    /\ \E i \in 1..Len(call.payload) :
          Place(call.rows[i]) # Place(call.payload[i])

===========================================================================
